---- MODULE Spec2Model ----
(***************************************************************************)
(* BoxCars backend: the vehicle routes (src/routes/vehicles.js), the       *)
(* contact routes (src/unnamed/part_000), the Vehicle schema               *)
(* (src/unnamed/part_001) and the terminal error handler (src/server.js).  *)
(*                                                                         *)
(* A request is a unit of work that suspends at every store round trip     *)
(* (await).  Each action below is one such segment of a handler: the code  *)
(* from the request's arrival, or from the previous await, up to and       *)
(* including the store operation the next await waits for.                 *)
(***************************************************************************)
EXTENDS Integers, Sequences, FiniteSets, TLC

\* ------------------------------------------------------------------ bounds
\* ObjectIds the store hands out to vehicles (1..MaxVid).
MaxVid == 2
\* Cap on the views counted by the store, all vehicles together (beyond it
\* no fetch is started).
MaxViews == 2
\* ObjectIds the store hands out to contacts (1..MaxCid).
MaxCid == 2
\* Vehicles in the collection a listing is run against (at most).
MaxListed == 2
\* Request slots that may be in flight together.
Req == {1, 2}

\* ------------------------------------------------------ program constants
MinYear == 1900
CurrentYear == 2026
MaxLimit == 50
DefaultLimit == 10
DefaultPage == 1
\* An identifier string that does not cast to an ObjectId ("abc").
BadId == 0

VARIABLES
    vehicles,   \* the Vehicle collection: ObjectId -> document
    nextVid,    \* the next ObjectId the store hands out
    contacts,   \* the Contact collection: ObjectId -> document
    nextCid,    \* the next Contact ObjectId
    pc,         \* per request slot: idle, the await the handler is suspended at, or done
    loc,        \* per request slot: the handler's request and local variables
    resp,       \* per request slot: the response sent (code 0: none yet)
    calls,      \* per request slot: the store operations executed for it
    fresh,      \* history: the vehicle the last request created, the body sent for
                \* it, and whether the one request since then fetched it
    saved       \* history, kept by the behaviours of racing fetches only: per
                \* vehicle, the fetches whose save wrote its counter

vars == <<vehicles, nextVid, contacts, nextCid, pc, loc, resp, calls, fresh, saved>>

\* ------------------------------------------------------------------ users
\* The User collection is read-only here (src/routes/auth.js is not part of
\* the model): three roles, two dealers.
UserIds == {"d1", "d2", "a1", "u1"}
UserRole == ("d1" :> "dealer") @@ ("d2" :> "dealer") @@ ("a1" :> "admin") @@ ("u1" :> "user")
Anonymous == "anon"
Callers == UserIds \cup {Anonymous}

\* middleware/auth.js protect: a request without a valid token is answered 401.
protect(caller) == caller \in UserIds
\* middleware/auth.js authorize(...roles): the caller's role must be listed.
authorize(roles, caller) == UserRole[caller] \in roles

\* ---------------------------------------------------------------- helpers
Has(b, f) == f \in DOMAIN b
\* { ...a, ...b }: object spread, the later object wins.
Spread(a, b) == [f \in DOMAIN a \cup DOMAIN b |-> IF f \in DOMAIN b THEN b[f] ELSE a[f]]

\* String.prototype.trim on the strings of the model.
Trim(s) ==
    CASE s = " Toyota " -> "Toyota"
      [] s = "  " -> ""
      [] OTHER -> s

Empty == [x \in {} |-> 0]
Opt(cond, rec) == IF cond THEN rec ELSE Empty

NoResp == [op |-> "none", code |-> 0]
NoLocals == [k |-> "none"]
NoFresh == [id |-> 0, fetched |-> FALSE]
\* The catch block every route handler ends with.
ServerError(op) == [op |-> op, code |-> 500, success |-> FALSE, message |-> "Server error"]
NotFound(op) == [op |-> op, code |-> 404, success |-> FALSE, message |-> "not found"]
Unauthorized(op) == [op |-> op, code |-> 401, success |-> FALSE, message |-> "Not authorized"]
Forbidden(op) == [op |-> op, code |-> 403, success |-> FALSE, message |-> "Not authorized"]
ValidationFailed(op, errs) ==
    [op |-> op, code |-> 400, success |-> FALSE, message |-> "Validation failed",
     errors |-> errs]

\* --------------------------------------------------------- Vehicle schema
FuelTypes == {"Petrol", "Diesel", "Hybrid", "Electric", "CNG", "LPG"}
Transmissions == {"Manual", "Automatic", "CVT", "Semi-Automatic"}
BodyTypes == {"SUV", "Sedan", "Hatchback", "Coupe", "Convertible", "Truck", "Van", "Wagon"}
Conditions == {"New", "Used", "Certified Pre-Owned"}
Statuses == {"available", "sold", "reserved", "pending"}

\* Paths of the schema that the model keeps (originalPrice, color, features,
\* badge, location and updatedAt take part in no operation modelled here).
SchemaPaths ==
    {"make", "model", "year", "price", "mileage", "fuelType", "transmission",
     "bodyType", "engine", "image", "condition", "dealer", "status", "views",
     "isActive", "createdAt"}
RequiredPaths ==
    {"make", "model", "year", "price", "mileage", "fuelType", "transmission",
     "bodyType", "engine", "image", "condition", "dealer"}
TrimmedPaths == {"make", "model", "engine", "image"}

\* The schema's per-path validators (required strings are non-empty).
PathValid(f, v) ==
    CASE f \in {"make", "model", "engine", "image"} -> v # ""
      [] f = "year" -> v >= MinYear /\ v <= CurrentYear + 1
      [] f \in {"price", "mileage"} -> v >= 0
      [] f = "fuelType" -> v \in FuelTypes
      [] f = "transmission" -> v \in Transmissions
      [] f = "bodyType" -> v \in BodyTypes
      [] f = "condition" -> v \in Conditions
      [] f = "status" -> v \in Statuses
      [] OTHER -> TRUE

\* Casting of a plain object to the schema: unknown paths are dropped and
\* trim: true paths are trimmed.
Cast(data) ==
    [f \in DOMAIN data \cap SchemaPaths |->
        IF f \in TrimmedPaths THEN Trim(data[f]) ELSE data[f]]

\* The schema defaults of a new document; createdAt defaults to Date.now,
\* which the model reads as the document's place in creation order.
Defaults(now) ==
    [status |-> "available", views |-> 0, isActive |-> TRUE, createdAt |-> now]

\* The paths that fail validation when a document is created.
SchemaErrors(data) ==
    LET d == Cast(data)
    IN  (RequiredPaths \ DOMAIN d) \cup {f \in DOMAIN d : ~PathValid(f, d[f])}

\* NewVehicle with the defaults applied over the data, not under it.
NewVehicleDefaultsWin(data, id) ==
    Spread(Spread(Cast(data), Defaults(id)), [id |-> id])

\* The document Vehicle.create stores for `data` under ObjectId `id`.
NewVehicle(data, id) ==
    Spread(Spread(Defaults(id), Cast(data)), [id |-> id])

\* The paths of an update that fail with runValidators: true.
UpdateErrors(patch) ==
    LET p == Cast(patch)
    IN  {f \in DOMAIN p : ~PathValid(f, p[f])}

\* findByIdAndUpdate's $set of the cast update.
ApplyUpdate(doc, patch) == Spread(doc, Cast(patch))

\* ------------------------------------------- POST /vehicles: validation
\* The express-validator chains of POST /vehicles: the fields that fail.
CreateErrors(b) ==
    {f \in {"make", "model", "image"} : ~Has(b, f) \/ Trim(b[f]) = ""}
    \cup {f \in {"year"} : ~Has(b, f) \/ b[f] < MinYear \/ b[f] > CurrentYear + 1}
    \cup {f \in {"price", "mileage"} : ~Has(b, f) \/ b[f] < 0}
    \cup {f \in {"fuelType"} : ~Has(b, f) \/ b[f] \notin FuelTypes}
    \cup {f \in {"transmission"} : ~Has(b, f) \/ b[f] \notin Transmissions}
    \cup {f \in {"bodyType"} : ~Has(b, f) \/ b[f] \notin BodyTypes}
    \cup {f \in {"condition"} : ~Has(b, f) \/ b[f] \notin Conditions}

\* The trim() sanitizers write the trimmed value back into req.body.
Sanitize(b) ==
    [f \in DOMAIN b |-> IF f \in {"make", "model", "image"} THEN Trim(b[f]) ELSE b[f]]

\* vehicleData = { ...req.body, dealer: req.user.id }
VehicleData(b, caller) == Spread(Sanitize(b), [dealer |-> caller])

\* ------------------------------------------------------------ request inputs
BaseBody ==
    [make |-> "Toyota", model |-> "Corolla", year |-> 2020, price |-> 10,
     mileage |-> 5, fuelType |-> "Petrol", transmission |-> "Manual",
     bodyType |-> "Sedan", engine |-> "1.8L", image |-> "a.png",
     condition |-> "Used"]
Without(b, f) == [g \in DOMAIN b \ {f} |-> b[g]]

\* Bodies of POST /vehicles.
Bodies ==
    {BaseBody,
     [BaseBody EXCEPT !.make = " Toyota "],
     [BaseBody EXCEPT !.year = 1899],
     Without(BaseBody, "engine"),
     Spread(BaseBody, [views |-> 1]),
     Spread(BaseBody, [dealer |-> "d2"]),
     Spread(BaseBody, [status |-> "sold"])}

\* Bodies of PUT /vehicles/:id.
Patches ==
    {[status |-> "sold"], [status |-> "bogus"], [dealer |-> "d2"], [views |-> 0]}

Ids == (1..MaxVid) \cup {BadId}


\* ------------------------------------------------------- handler plumbing
\* res.status(..).json(..): the handler is finished.
Reply(r, response) ==
    /\ resp' = [resp EXCEPT ![r] = response]
    /\ pc' = [pc EXCEPT ![r] = "done"]
    /\ loc' = [loc EXCEPT ![r] = NoLocals]

\* await: the handler is suspended until the store operation `at` is run.
Suspend(r, at, locals) ==
    /\ pc' = [pc EXCEPT ![r] = at]
    /\ loc' = [loc EXCEPT ![r] = locals]
    /\ UNCHANGED resp

Called(r, op) == calls' = [calls EXCEPT ![r] = Append(@, op)]

\* The response has gone out; the slot takes the next request.
Done(r) ==
    /\ pc[r] = "done"
    /\ pc' = [pc EXCEPT ![r] = "idle"]
    /\ resp' = [resp EXCEPT ![r] = NoResp]
    /\ calls' = [calls EXCEPT ![r] = <<>>]
    /\ UNCHANGED <<vehicles, nextVid, contacts, nextCid, loc, fresh, saved>>

\* =================================================== GET /vehicles/:id
\* The views the store counts, all vehicles together.
RECURSIVE TotalViews(_)
TotalViews(ids) ==
    IF ids = {} THEN 0
    ELSE LET i == CHOOSE i \in ids : TRUE
         IN  vehicles[i].views + TotalViews(ids \ {i})

\* Vehicle.findById(req.params.id): cast failure, no document, or the document.
GetFind(r, id) ==
    /\ pc[r] = "idle"
    /\ Called(r, "findById")
    /\ fresh' = IF fresh.id = id /\ ~fresh.fetched
                  THEN [fresh EXCEPT !.fetched = TRUE]
                  ELSE NoFresh
    /\ UNCHANGED <<vehicles, nextVid, contacts, nextCid, saved>>
    /\ IF id = BadId
         THEN Reply(r, ServerError("getVehicle"))
         ELSE IF id \notin DOMAIN vehicles
         THEN Reply(r, NotFound("getVehicle"))
         ELSE /\ TotalViews(DOMAIN vehicles) < MaxViews
              /\ Suspend(r, "get_save", [vehicle |-> vehicles[id]])

\* Viewed with the increment left out.
NotViewed(v) == v

\* vehicle.views += 1 on the document read earlier.
Viewed(v) == [v EXCEPT !.views = v.views + 1]

\* GetSave as an atomic increment of the stored counter ($inc), whatever the
\* fetch read.
GetSaveInc(r) ==
    /\ pc[r] = "get_save"
    /\ Called(r, "save")
    /\ UNCHANGED <<nextVid, contacts, nextCid, fresh>>
    /\ LET id == loc[r].vehicle.id
       IN  IF id \in DOMAIN vehicles
             THEN /\ vehicles' = [vehicles EXCEPT ![id].views = @ + 1]
                  /\ Reply(r, [op |-> "getVehicle", code |-> 200,
                               vehicle |-> [vehicles[id] EXCEPT !.views = @ + 1]])
             ELSE /\ UNCHANGED vehicles
                  /\ Reply(r, ServerError("getVehicle"))

\* vehicle.save(): $set of the one modified path, views, by _id.  When the
\* document was deleted meanwhile the save matches nothing: it rejects
\* (DocumentNotFoundError, caught: 500) or resolves, by Mongoose version.
GetSave(r) ==
    /\ pc[r] = "get_save"
    /\ Called(r, "save")
    /\ UNCHANGED <<nextVid, contacts, nextCid, fresh>>
    /\ LET v == Viewed(loc[r].vehicle)
           ok == [op |-> "getVehicle", code |-> 200, vehicle |-> v]
       IN  IF v.id \in DOMAIN vehicles
             THEN /\ vehicles' = [vehicles EXCEPT ![v.id].views = v.views]
                  /\ Reply(r, ok)
             ELSE /\ UNCHANGED vehicles
                  /\ \/ Reply(r, ServerError("getVehicle"))
                     \/ Reply(r, ok)

\* ====================================================== POST /vehicles
\* protect, authorize('dealer', 'admin'), the validators, Vehicle.create.
VehicleCreate(r, caller, body) ==
    /\ pc[r] = "idle"
    /\ UNCHANGED <<contacts, nextCid, saved>>
    /\ IF ~protect(caller)
         THEN /\ Reply(r, Unauthorized("createVehicle"))
              /\ fresh' = NoFresh
              /\ UNCHANGED <<vehicles, nextVid, calls>>
         ELSE IF ~authorize({"dealer", "admin"}, caller)
         THEN /\ Reply(r, Forbidden("createVehicle"))
              /\ fresh' = NoFresh
              /\ UNCHANGED <<vehicles, nextVid, calls>>
         ELSE IF CreateErrors(body) # {}
         THEN /\ Reply(r, ValidationFailed("createVehicle", CreateErrors(body)))
              /\ fresh' = NoFresh
              /\ UNCHANGED <<vehicles, nextVid, calls>>
         ELSE LET data == VehicleData(body, caller)
              IN  /\ Called(r, "create")
                  /\ IF SchemaErrors(data) # {}
                       THEN /\ Reply(r, ServerError("createVehicle"))
                            /\ fresh' = NoFresh
                            /\ UNCHANGED <<vehicles, nextVid>>
                       ELSE /\ nextVid <= MaxVid
                            /\ vehicles' = (nextVid :> NewVehicle(data, nextVid)) @@ vehicles
                            /\ nextVid' = nextVid + 1
                            /\ fresh' = [id |-> nextVid, fetched |-> FALSE, sent |-> body,
                                       caller |-> caller]
                            /\ Reply(r, [op |-> "createVehicle", code |-> 201,
                                         success |-> TRUE,
                                         vehicle |-> NewVehicle(data, nextVid)])

\* =================================================== PUT /vehicles/:id
\* NotOwnerNorAdmin without the admin override.
NotOwner(vehicle, caller) == vehicle.dealer # caller

\* The ownership test of PUT and DELETE: true when the caller is refused.
NotOwnerNorAdmin(vehicle, caller) ==
    vehicle.dealer # caller /\ UserRole[caller] # "admin"

\* A response together with the req.user and req.params.id it answers.
Answering(response, caller, id) == Spread(response, [caller |-> caller, id |-> id])

\* protect, Vehicle.findById and the ownership check, shared by PUT and DELETE.
FindForMutation(r, op, caller, id, at, locals) ==
    /\ pc[r] = "idle"
    /\ fresh' = NoFresh
    /\ UNCHANGED <<vehicles, nextVid, contacts, nextCid, saved>>
    /\ IF ~protect(caller)
         THEN Reply(r, Unauthorized(op)) /\ UNCHANGED calls
         ELSE /\ Called(r, "findById")
              /\ IF id = BadId
                   THEN Reply(r, Answering(ServerError(op), caller, id))
                   ELSE IF id \notin DOMAIN vehicles
                   THEN Reply(r, Answering(NotFound(op), caller, id))
                   ELSE IF NotOwnerNorAdmin(vehicles[id], caller)
                   THEN Reply(r, Answering(Forbidden(op), caller, id))
                   ELSE Suspend(r, at, Spread(locals, [caller |-> caller]))

PutFind(r, caller, id, patch) ==
    FindForMutation(r, "putVehicle", caller, id, "put_update",
                    [id |-> id, body |-> patch])

\* Vehicle.findByIdAndUpdate(id, req.body, { new: true, runValidators: true }).
PutUpdate(r) ==
    /\ pc[r] = "put_update"
    /\ Called(r, "findByIdAndUpdate")
    /\ UNCHANGED <<nextVid, contacts, nextCid, fresh, saved>>
    /\ LET id == loc[r].id
           patch == loc[r].body
       IN  IF UpdateErrors(patch) # {}
             THEN /\ Reply(r, ServerError("putVehicle"))
                  /\ UNCHANGED vehicles
             ELSE IF id \in DOMAIN vehicles
             THEN /\ vehicles' = [vehicles EXCEPT ![id] = ApplyUpdate(@, patch)]
                  /\ Reply(r, [op |-> "putVehicle", code |-> 200, success |-> TRUE,
                               found |-> TRUE,
                               vehicle |-> ApplyUpdate(vehicles[id], patch)])
             ELSE /\ UNCHANGED vehicles
                  /\ Reply(r, [op |-> "putVehicle", code |-> 200, success |-> TRUE,
                               found |-> FALSE])

\* ================================================ DELETE /vehicles/:id
DelFind(r, caller, id) ==
    FindForMutation(r, "deleteVehicle", caller, id, "del_delete", [id |-> id])

\* Vehicle.findByIdAndDelete(req.params.id): no document is no error.
DelDelete(r) ==
    /\ pc[r] = "del_delete"
    /\ Called(r, "findByIdAndDelete")
    /\ vehicles' = [i \in DOMAIN vehicles \ {loc[r].id} |-> vehicles[i]]
    /\ Reply(r, [op |-> "deleteVehicle", code |-> 200, success |-> TRUE])
    /\ UNCHANGED <<nextVid, contacts, nextCid, fresh, saved>>

\* ======================================================= GET /vehicles
\* Query-string values are strings.  The numeric strings of the model and
\* the number parseInt and parseFloat read from each.
NumVal ==
    ("0" :> 0) @@ ("1" :> 1) @@ ("2" :> 2) @@ ("10" :> 10) @@ ("20" :> 20)
    @@ ("50" :> 50) @@ ("51" :> 51) @@ ("-1" :> (0 - 1)) @@ ("2020" :> 2020)
Numeric(s) == s \in DOMAIN NumVal

\* validator.js isInt({ min, max }) and isFloat({ min }).
isInt(s, lo, hi) == Numeric(s) /\ NumVal[s] >= lo /\ NumVal[s] <= hi
isIntMin(s, lo) == Numeric(s) /\ NumVal[s] >= lo
isFloatMin(s, lo) == Numeric(s) /\ NumVal[s] >= lo

\* if (req.query.x): present and not the empty string.
Truthy(q, k) == Has(q, k) /\ q[k] # ""

\* ListErrors with no upper bound on limit.
ListErrorsNoMax(q) ==
    {f \in {"page", "limit"} : Has(q, f) /\ ~isIntMin(q[f], 1)}
    \cup {f \in {"minPrice", "maxPrice"} : Has(q, f) /\ ~isFloatMin(q[f], 0)}

\* The express-validator chains of GET /vehicles: the fields that fail.
ListErrors(q) ==
    {f \in {"page"} : Has(q, f) /\ ~isIntMin(q[f], 1)}
    \cup {f \in {"limit"} : Has(q, f) /\ ~isInt(q[f], 1, MaxLimit)}
    \cup {f \in {"minPrice", "maxPrice"} : Has(q, f) /\ ~isFloatMin(q[f], 0)}

\* parseInt(req.query.x) || d: NaN and 0 fall back to d.
ParseIntOr(q, k, d) ==
    IF Has(q, k) /\ Numeric(q[k]) /\ NumVal[q[k]] # 0 THEN NumVal[q[k]] ELSE d
\* The values equal to parseInt(s): none when it is NaN.
ParseIntSet(s) == IF Numeric(s) THEN {NumVal[s]} ELSE {}

\* new RegExp(p, 'i') throws a SyntaxError on these patterns.
BadPatterns == {"("}
\* new RegExp(p, 'i').test(s) on the patterns and the strings of the model.
RegexHits ==
    {<<"toyo", "Toyota">>, <<"civ", "Civic">>, <<"O", "Toyota">>, <<"O", "Honda">>,
     <<"O", "Corolla">>}
RegexTest(p, s) == <<p, s>> \in RegexHits

\* The keys the query parameters add to the filter object.
FilterTerms(q) ==
    LET text == [k \in {k \in {"make", "model"} : Truthy(q, k)} |-> q[k]]
        year == Opt(Truthy(q, "year"), [year |-> ParseIntSet(q["year"])])
        enum == [k \in {k \in {"condition", "fuelType", "transmission", "bodyType"} :
                           Truthy(q, k)} |-> q[k]]
        gte == Opt(Truthy(q, "minPrice"), [gte |-> NumVal[q["minPrice"]]])
        lte == Opt(Truthy(q, "maxPrice"), [lte |-> NumVal[q["maxPrice"]]])
        price == Opt(Truthy(q, "minPrice") \/ Truthy(q, "maxPrice"),
                     [price |-> Spread(gte, lte)])
    IN  Spread(Spread(Spread(text, year), enum), price)

\* BuildFilter with the query parameters spread over the filter, so that a
\* status or isActive parameter replaces the fixed condition.
BuildFilterOverridable(q) ==
    Spread(Spread([isActive |-> TRUE, status |-> "available"], FilterTerms(q)),
           [k \in DOMAIN q \cap {"status", "isActive"} |-> q[k]])

\* The filter object: isActive and status are set first, and no parameter
\* writes either key.
BuildFilter(q) == Spread([isActive |-> TRUE, status |-> "available"], FilterTerms(q))

\* The filter cannot be built: a make or model that is no regular expression.
FilterThrows(q) ==
    \E k \in {"make", "model"} : Truthy(q, k) /\ q[k] \in BadPatterns

\* The sort object: { createdAt: -1 }, or { [sortBy]: 1 or -1 }.
BuildSort(q) ==
    IF Truthy(q, "sortBy")
      THEN [field |-> q["sortBy"],
            dir |-> IF Has(q, "sortOrder") /\ q["sortOrder"] = "desc" THEN 0 - 1 ELSE 1]
      ELSE [field |-> "createdAt", dir |-> 0 - 1]

\* Whether the store matches a document against a filter.
Matches(doc, f) ==
    /\ \A k \in DOMAIN f \cap {"isActive", "status", "condition", "fuelType",
                               "transmission", "bodyType"} : doc[k] = f[k]
    /\ \A k \in DOMAIN f \cap {"make", "model"} : RegexTest(f[k], doc[k])
    /\ Has(f, "year") => doc.year \in f.year
    /\ Has(f, "price") =>
         /\ Has(f.price, "gte") => doc.price >= f.price.gte
         /\ Has(f.price, "lte") => doc.price <= f.price.lte

Matching(vs, f) == {vs[i] : i \in {j \in DOMAIN vs : Matches(vs[j], f)}}

\* The sort key of a document: a path the document lacks sorts as null.
SortKey(doc, field) == IF field \in {"price", "year", "views", "createdAt"} THEN doc[field] ELSE 0

\* Every order the store may return the set S in under `sort`: documents
\* with equal keys come in any order.
Orders(S, sort) ==
    {s \in [1..Cardinality(S) -> S] :
        /\ \A i, j \in 1..Cardinality(S) : i # j => s[i] # s[j]
        /\ \A i, j \in 1..Cardinality(S) :
              i < j => sort.dir * SortKey(s[i], sort.field)
                       <= sort.dir * SortKey(s[j], sort.field)}

\* .skip(skip).limit(limit) of an ordered result.
Window(s, skip, limit) ==
    SubSeq(s, skip + 1, IF skip + limit < Len(s) THEN skip + limit ELSE Len(s))

\* CeilDiv rounding down.
FloorDiv(total, limit) == total \div limit

\* Math.ceil(total / limit)
CeilDiv(total, limit) == (total + limit - 1) \div limit

\* The response of the listing for the page fetched and the total counted.
ListResponse(q, found, total, page, limit) ==
    [op |-> "listVehicles", code |-> 200, query |-> q, vehicles |-> found,
     pagination |-> [currentPage |-> page,
                     totalPages |-> CeilDiv(total, limit),
                     totalVehicles |-> total,
                     hasNextPage |-> page < CeilDiv(total, limit),
                     hasPrevPage |-> page > 1]]

\* The 400 of a listing that fails validation, and the 500 of its catch block;
\* each is kept with the query it answers.
ListRejected(q) ==
    Spread(ValidationFailed("listVehicles", ListErrors(q)), [query |-> q])
ListFailed(q) == Spread(ServerError("listVehicles"), [query |-> q])

\* Validation, the filter and sort objects, and Vehicle.find(filter)
\* .sort(sort).skip(skip).limit(limit).
ListFind(r, q) ==
    /\ pc[r] = "idle"
    /\ fresh' = NoFresh
    /\ UNCHANGED <<vehicles, nextVid, contacts, nextCid, saved>>
    /\ IF ListErrors(q) # {}
         THEN /\ Reply(r, ListRejected(q))
              /\ UNCHANGED calls
         ELSE IF FilterThrows(q)
         THEN /\ Reply(r, ListFailed(q))
              /\ UNCHANGED calls
         ELSE LET page == ParseIntOr(q, "page", DefaultPage)
                  limit == ParseIntOr(q, "limit", DefaultLimit)
                  filter == BuildFilter(q)
              IN  /\ Called(r, "find")
                  /\ \E s \in Orders(Matching(vehicles, filter), BuildSort(q)) :
                        Suspend(r, "list_count",
                                [q |-> q, filter |-> filter, page |-> page, limit |-> limit,
                                 matched |-> Matching(vehicles, filter),
                                 vehicles |-> Window(s, (page - 1) * limit, limit)])

\* ListCount counting every document of the collection, not those of the
\* filter.
ListCountAll(r) ==
    /\ pc[r] = "list_count"
    /\ Called(r, "countDocuments")
    /\ Reply(r, ListResponse(loc[r].q, loc[r].vehicles,
                             Cardinality(DOMAIN vehicles),
                             loc[r].page, loc[r].limit))
    /\ UNCHANGED <<vehicles, nextVid, contacts, nextCid, fresh, saved>>

\* Vehicle.countDocuments(filter) and the response.
ListCount(r) ==
    /\ pc[r] = "list_count"
    /\ Called(r, "countDocuments")
    /\ Reply(r, ListResponse(loc[r].q, loc[r].vehicles,
                             Cardinality(Matching(vehicles, loc[r].filter)),
                             loc[r].page, loc[r].limit))
    /\ UNCHANGED <<vehicles, nextVid, contacts, nextCid, fresh, saved>>

\* The whole handler of GET /vehicles when no other request runs between its
\* two awaits: find and countDocuments see the same collection.
Listing(r, q) ==
    /\ pc[r] = "idle"
    /\ fresh' = NoFresh
    /\ UNCHANGED <<vehicles, nextVid, contacts, nextCid, saved>>
    /\ IF ListErrors(q) # {}
         THEN /\ Reply(r, ListRejected(q))
              /\ UNCHANGED calls
         ELSE IF FilterThrows(q)
         THEN /\ Reply(r, ListFailed(q))
              /\ UNCHANGED calls
         ELSE LET page == ParseIntOr(q, "page", DefaultPage)
                  limit == ParseIntOr(q, "limit", DefaultLimit)
                  filter == BuildFilter(q)
              IN  /\ calls' = [calls EXCEPT ![r] = <<"find", "countDocuments">>]
                  /\ \E s \in Orders(Matching(vehicles, filter), BuildSort(q)) :
                        Reply(r, ListResponse(q, Window(s, (page - 1) * limit, limit),
                                              Cardinality(Matching(vehicles, filter)),
                                              page, limit))

\* ======================================================= POST /contact
\* The Contact schema (models/Contact.js): status and isRead default to
\* new and false; dealerId and vehicleId are references.
ContactStatuses == {"new", "in_progress", "resolved", "closed"}
ContactPaths == {"name", "email", "subject", "message", "inquiryType", "vehicleId",
                 "dealerId", "status", "isRead"}
ContactDefaults == [status |-> "new", isRead |-> FALSE, inquiryType |-> "general"]
NewContact(payload, id) ==
    Spread(Spread(ContactDefaults, [f \in DOMAIN payload \cap ContactPaths |-> payload[f]]),
           [id |-> id])

\* The lengths, after trim, of the strings of the model, and its one e-mail.
TextLen == ("Al" :> 2) @@ ("A" :> 1) @@ ("Hello" :> 5) @@ ("I want this car" :> 15)
Emails == {"al@x.co"}

\* The express-validator chains of POST /contact: the fields that fail.
ContactErrors(b) ==
    {f \in {"name"} : ~Has(b, f) \/ TextLen[b[f]] < 2}
    \cup {f \in {"email"} : ~Has(b, f) \/ b[f] \notin Emails}
    \cup {f \in {"subject"} : ~Has(b, f) \/ TextLen[b[f]] < 5}
    \cup {f \in {"message"} : ~Has(b, f) \/ TextLen[b[f]] < 10}

\* POST /contact without its catch block: the rejection is unhandled and
\* no response is sent.
ContactNoCatch == [op |-> "postContact", code |-> 0, crashed |-> TRUE]

\* The catch block of POST /contact.
ContactCatch ==
    [op |-> "postContact", code |-> 500, success |-> FALSE,
     message |-> "Server error. Please try again later."]

\* payload = { ...req.body, dealerId: vehicle.dealer._id.toString() }
ContactPayload(b, vehicle) == Spread(b, [dealerId |-> vehicle.dealer])

\* Vehicle.findById(req.body.vehicleId); an absent vehicleId finds nothing.
\* Reading .dealer of the null result throws a TypeError inside the try
\* block, which the catch block answers.
ContactFind(r, body) ==
    /\ pc[r] = "idle"
    /\ fresh' = NoFresh
    /\ UNCHANGED <<vehicles, nextVid, contacts, nextCid, saved>>
    /\ IF ContactErrors(body) # {}
         THEN /\ Reply(r, ValidationFailed("postContact", ContactErrors(body)))
              /\ UNCHANGED calls
         ELSE /\ Called(r, "findById")
              /\ IF Has(body, "vehicleId") /\ body.vehicleId = BadId
                   THEN Reply(r, ContactCatch)
                   ELSE IF ~Has(body, "vehicleId") \/ body.vehicleId \notin DOMAIN vehicles
                   THEN Reply(r, ContactCatch)
                   ELSE Suspend(r, "contact_create",
                                [payload |-> ContactPayload(body, vehicles[body.vehicleId])])

\* Contact.create(payload)
ContactCreate(r) ==
    /\ pc[r] = "contact_create"
    /\ Called(r, "create")
    /\ UNCHANGED <<vehicles, nextVid, fresh, saved>>
    /\ IF NewContact(loc[r].payload, nextCid).status \notin ContactStatuses
         THEN /\ Reply(r, ContactCatch)
              /\ UNCHANGED <<contacts, nextCid>>
         ELSE /\ nextCid <= MaxCid
              /\ contacts' = (nextCid :> NewContact(loc[r].payload, nextCid)) @@ contacts
              /\ nextCid' = nextCid + 1
              /\ Reply(r, [op |-> "postContact", code |-> 201, success |-> TRUE,
                           contact |-> NewContact(loc[r].payload, nextCid)])

\* ======================================================== GET /contact
\* ContactFilter without the dealer scope.
ContactFilterUnscoped(caller, q) ==
    [k \in {k \in {"status", "inquiryType"} : Truthy(q, k)} |-> q[k]]

\* filter = { dealerId: req.user._id } and the optional status, inquiryType.
ContactFilter(caller, q) ==
    Spread([dealerId |-> caller],
           [k \in {k \in {"status", "inquiryType"} : Truthy(q, k)} |-> q[k]])

ContactMatching(cs, f) ==
    {cs[i] : i \in {j \in DOMAIN cs : \A k \in DOMAIN f : cs[j][k] = f[k]}}

\* sort({ createdAt: -1 }): newest first; contacts are created in id order.
NewestFirst(S) ==
    {s \in [1..Cardinality(S) -> S] :
        \A i, j \in 1..Cardinality(S) : i < j => s[i].id > s[j].id}

\* protect, authorize('dealer') and Contact.find(filter).sort.skip.limit.
ContactsFind(r, caller, q) ==
    /\ pc[r] = "idle"
    /\ fresh' = NoFresh
    /\ UNCHANGED <<vehicles, nextVid, contacts, nextCid, saved>>
    /\ IF ~protect(caller)
         THEN Reply(r, Unauthorized("getContacts")) /\ UNCHANGED calls
         ELSE IF ~authorize({"dealer"}, caller)
         THEN Reply(r, Forbidden("getContacts")) /\ UNCHANGED calls
         ELSE LET page == ParseIntOr(q, "page", DefaultPage)
                  limit == ParseIntOr(q, "limit", DefaultLimit)
                  filter == ContactFilter(caller, q)
              IN  /\ Called(r, "find")
                  /\ \E s \in NewestFirst(ContactMatching(contacts, filter)) :
                        Suspend(r, "contacts_count",
                                [caller |-> caller, filter |-> filter, page |-> page,
                                 limit |-> limit,
                                 contacts |-> Window(s, (page - 1) * limit, limit)])

\* Contact.countDocuments(filter) and the response.
ContactsCount(r) ==
    /\ pc[r] = "contacts_count"
    /\ Called(r, "countDocuments")
    /\ UNCHANGED <<vehicles, nextVid, contacts, nextCid, fresh, saved>>
    /\ LET total == Cardinality(ContactMatching(contacts, loc[r].filter))
       IN  Reply(r, [op |-> "getContacts", code |-> 200, success |-> TRUE,
                     caller |-> loc[r].caller, contacts |-> loc[r].contacts,
                     pagination |-> [currentPage |-> loc[r].page,
                                     totalPages |-> CeilDiv(total, loc[r].limit),
                                     total |-> total]])

\* ============================================= PUT /contact/:id/status
\* StatusPatch without the read flag.
StatusOnly(status) == [status |-> status]

\* { status: req.body.status, isRead: true }
StatusPatch(status) == [status |-> status, isRead |-> TRUE]

\* protect, authorize('admin'), the validator and Contact.findByIdAndUpdate.
StatusUpdate(r, caller, id, status) ==
    /\ pc[r] = "idle"
    /\ fresh' = NoFresh
    /\ UNCHANGED <<vehicles, nextVid, nextCid, saved>>
    /\ IF ~protect(caller)
         THEN Reply(r, Unauthorized("putStatus")) /\ UNCHANGED <<calls, contacts>>
         ELSE IF ~authorize({"admin"}, caller)
         THEN Reply(r, Forbidden("putStatus")) /\ UNCHANGED <<calls, contacts>>
         ELSE IF status \notin {"new", "in_progress", "resolved", "closed"}
         THEN /\ Reply(r, ValidationFailed("putStatus", {"status"}))
              /\ UNCHANGED <<calls, contacts>>
         ELSE /\ Called(r, "findByIdAndUpdate")
              /\ IF id = BadId
                   THEN Reply(r, ServerError("putStatus")) /\ UNCHANGED contacts
                   ELSE IF id \notin DOMAIN contacts
                   THEN Reply(r, NotFound("putStatus")) /\ UNCHANGED contacts
                   ELSE /\ contacts' = [contacts EXCEPT ![id] = Spread(@, StatusPatch(status))]
                        /\ Reply(r, [op |-> "putStatus", code |-> 200, success |-> TRUE,
                                     contact |-> Spread(contacts[id], StatusPatch(status))])

\* ============================================ the terminal error handler
\* app.use((err, req, res, next) => ...): the response for an error that a
\* middleware passed to next(err).
ErrorHandler(err) ==
    IF err.name = "ValidationError"
      THEN [op |-> "error", code |-> 400, success |-> FALSE, message |-> "Validation Error"]
      ELSE IF err.name = "CastError"
      THEN [op |-> "error", code |-> 400, success |-> FALSE, message |-> "Invalid ID format"]
      ELSE [op |-> "error", code |-> IF Has(err, "status") THEN err.status ELSE 500,
            success |-> FALSE, message |-> err.name]

\* The errors express.json() passes on (a body that does not parse, a body
\* over the size limit) and an error with no status.
MiddlewareErrors ==
    {[name |-> "SyntaxError", status |-> 400],
     [name |-> "PayloadTooLargeError", status |-> 413],
     [name |-> "Error"]}

\* A request that fails in a middleware before its route handler runs.
MiddlewareError(r, err) ==
    /\ pc[r] = "idle"
    /\ fresh' = NoFresh
    /\ Reply(r, ErrorHandler(err))
    /\ UNCHANGED <<vehicles, nextVid, contacts, nextCid, calls, saved>>

\* ================================================================ inputs
\* Queries of GET /vehicles run with other requests in flight.
CoreQueries == {Empty, [limit |-> "1"]}
CoreBodies == {BaseBody}
CorePatches == {[status |-> "sold"]}
CoreCallers == {"d1", "d2"}

\* Queries of GET /vehicles: every combination of the filter parameters
\* (and of a status parameter, which the handler does not read), and every
\* combination of the paging and sorting parameters.
Choice(k, values) == {Empty} \cup {(k :> v) : v \in values}
Join(A, B) == {Spread(a, b) : a \in A, b \in B}
FilterQueries ==
    Join(Choice("make", {"toyo", "("}),
    Join(Choice("model", {"civ"}),
    Join(Choice("year", {"2020"}),
    Join(Choice("condition", {"Used"}),
    Join(Choice("fuelType", {"Petrol"}),
    Join(Choice("transmission", {"Manual"}),
    Join(Choice("bodyType", {"Sedan"}),
    Join(Choice("minPrice", {"10"}),
    Join(Choice("maxPrice", {"20"}),
         Choice("status", {"sold"}))))))))))
PagingQueries ==
    Join(Choice("page", {"1", "2", "0", ""}),
    Join(Choice("limit", {"1", "2", "50", "51", "0", "abc"}),
    Join(Choice("sortBy", {"price", "mileage"}),
    Join(Choice("sortOrder", {"desc"}),
         Choice("minPrice", {"-1"})))))
ListQueries == FilterQueries \cup PagingQueries

\* The collections a listing is run against: vehicle i absent, listed, sold
\* or deactivated, for i up to MaxListed; the vehicles differ in every field
\* the filter reads.
Listed(i) ==
    LET body == CASE i % 3 = 1 -> BaseBody
                  [] i % 3 = 2 -> [BaseBody EXCEPT !.make = "Honda", !.model = "Civic",
                                      !.year = 2021, !.price = 20, !.condition = "New",
                                      !.fuelType = "Diesel", !.transmission = "Automatic",
                                      !.bodyType = "SUV"]
                  [] OTHER -> [BaseBody EXCEPT !.model = "Civic", !.price = 20]
    IN  NewVehicle(VehicleData(body, "d1"), i)
ListedVariants(i) ==
    {Listed(i), [Listed(i) EXCEPT !.status = "sold"], [Listed(i) EXCEPT !.isActive = FALSE]}
ListedStores ==
    UNION {{vs \in [S -> UNION {ListedVariants(i) : i \in S}] :
               \A i \in S : vs[i] \in ListedVariants(i)} : S \in SUBSET (1..MaxListed)}

\* Bodies of POST /contact.
ContactBase ==
    [name |-> "Al", email |-> "al@x.co", subject |-> "Hello",
     message |-> "I want this car", vehicleId |-> 1]
ContactBodies ==
    {[ContactBase EXCEPT !.vehicleId = i] : i \in Ids}
    \cup {Without(ContactBase, "vehicleId"),
          [ContactBase EXCEPT !.name = "A"],
          Spread(ContactBase, [dealerId |-> "d2"]),
          Spread(ContactBase, [inquiryType |-> "test_drive"])}
ContactQueries ==
    Join(Choice("status", {"new", "closed"}),
    Join(Choice("inquiryType", {"test_drive"}), Choice("limit", {"1"})))
StatusInputs == {"new", "in_progress", "resolved", "closed", "archived"}
ContactIds == (1..MaxCid) \cup {BadId}

\* ============================================================ behaviours
Init ==
    /\ vehicles = Empty
    /\ nextVid = 1
    /\ contacts = Empty
    /\ nextCid = 1
    /\ pc = [r \in Req |-> "idle"]
    /\ loc = [r \in Req |-> NoLocals]
    /\ resp = [r \in Req |-> NoResp]
    /\ calls = [r \in Req |-> <<>>]
    /\ fresh = NoFresh
    /\ saved = [i \in 1..MaxVid |-> 0]

\* The vehicle routes, one request at a time.
Next ==
    \E r \in {1} :
        \/ \E id \in Ids : GetFind(r, id)
        \/ GetSave(r) /\ UNCHANGED saved
        \/ \E c \in Callers, b \in Bodies : VehicleCreate(r, c, b)
        \/ \E c \in Callers, id \in Ids, p \in Patches : PutFind(r, c, id, p)
        \/ PutUpdate(r)
        \/ \E c \in Callers, id \in Ids : DelFind(r, c, id)
        \/ DelDelete(r)
        \/ \E e \in MiddlewareErrors : MiddlewareError(r, e)
        \/ Done(r)

Spec == Init /\ [][Next]_vars

\* The vehicle routes with requests interleaved at their awaits.
NextConc ==
    \E r \in Req :
        \/ \E id \in 1..MaxVid : GetFind(r, id)
        \/ GetSave(r) /\ UNCHANGED saved
        \/ \E c \in CoreCallers, b \in CoreBodies : VehicleCreate(r, c, b)
        \/ \E c \in CoreCallers, id \in 1..MaxVid, p \in CorePatches : PutFind(r, c, id, p)
        \/ PutUpdate(r)
        \/ \E c \in CoreCallers, id \in 1..MaxVid : DelFind(r, c, id)
        \/ DelDelete(r)
        \/ \E q \in CoreQueries : ListFind(r, q)
        \/ ListCount(r)
        \/ Done(r)

SpecConc == Init /\ [][NextConc]_vars

\* The save of the fetch in slot r is counted for the vehicle when it
\* writes the vehicle's counter.
Counted(r) ==
    saved' = IF loc[r].vehicle.id \in DOMAIN vehicles
               THEN [saved EXCEPT ![loc[r].vehicle.id] = @ + 1]
               ELSE saved

\* Fetches of GET /vehicles/:id racing each other at their awaits, on
\* vehicles created with no views in the body.
NextRace ==
    \E r \in Req :
        \/ \E c \in CoreCallers, b \in CoreBodies : VehicleCreate(r, c, b)
        \/ \E id \in 1..MaxVid : GetFind(r, id)
        \/ GetSave(r) /\ Counted(r)
        \/ Done(r)

SpecRace == Init /\ [][NextRace]_vars

\* Listings of GET /vehicles with creates, updates and deletes landing
\* between their two awaits.
NextStale ==
    \E r \in Req :
        \/ \E c \in CoreCallers, b \in CoreBodies : VehicleCreate(r, c, b)
        \/ \E c \in CoreCallers, id \in 1..MaxVid, p \in CorePatches : PutFind(r, c, id, p)
        \/ PutUpdate(r)
        \/ \E c \in CoreCallers, id \in 1..MaxVid : DelFind(r, c, id)
        \/ DelDelete(r)
        \/ \E q \in CoreQueries : ListFind(r, q)
        \/ ListCount(r)
        \/ Done(r)

SpecStale == Init /\ [][NextStale]_vars

\* The listing, run against every collection of ListedStores.
InitList ==
    /\ vehicles \in ListedStores
    /\ nextVid = MaxListed + 1
    /\ contacts = Empty
    /\ nextCid = 1
    /\ pc = [r \in Req |-> "idle"]
    /\ loc = [r \in Req |-> NoLocals]
    /\ resp = [r \in Req |-> NoResp]
    /\ calls = [r \in Req |-> <<>>]
    /\ fresh = NoFresh
    /\ saved = [i \in 1..MaxVid |-> 0]

NextList ==
    \E r \in {1} :
        \/ \E q \in ListQueries : Listing(r, q)
        \/ Done(r)

SpecList == InitList /\ [][NextList]_vars

\* The contact routes, against a collection of two dealers' vehicles.
InitContact ==
    /\ vehicles \in {(1 :> NewVehicle(VehicleData(BaseBody, "d1"), 1)),
                     (1 :> NewVehicle(VehicleData(BaseBody, "d1"), 1))
                       @@ (2 :> NewVehicle(VehicleData(BaseBody, "d2"), 2))}
    /\ nextVid = 3
    /\ contacts = Empty
    /\ nextCid = 1
    /\ pc = [r \in Req |-> "idle"]
    /\ loc = [r \in Req |-> NoLocals]
    /\ resp = [r \in Req |-> NoResp]
    /\ calls = [r \in Req |-> <<>>]
    /\ fresh = NoFresh
    /\ saved = [i \in 1..MaxVid |-> 0]

NextContact ==
    \E r \in {1} :
        \/ \E b \in ContactBodies : ContactFind(r, b)
        \/ ContactCreate(r)
        \/ \E c \in Callers, q \in ContactQueries : ContactsFind(r, c, q)
        \/ ContactsCount(r)
        \/ \E c \in Callers, id \in ContactIds, s \in StatusInputs : StatusUpdate(r, c, id, s)
        \/ Done(r)

SpecContact == InitContact /\ [][NextContact]_vars

\* ================================================================ claims
ListReplies == {r \in Req : resp[r].op = "listVehicles"}
ListedOK == {r \in ListReplies : resp[r].code = 200}
PageOf(r) == {resp[r].vehicles[i] : i \in 1..Len(resp[r].vehicles)}

\* C1: every vehicle in a listing response is active and available, whatever
\* parameters the query carries (a status parameter included).
C1_ListedAreActiveAndAvailable ==
    \A r \in ListedOK :
        \A v \in PageOf(r) : v.isActive = TRUE /\ v.status = "available"

\* A listing that returned a vehicle although the query asked for status=sold
\* and the collection holds a sold or deactivated vehicle.
C1_Witness ==
    \E r \in ListedOK :
        /\ PageOf(r) # {}
        /\ Has(resp[r].query, "status") /\ Has(resp[r].query, "make")
        /\ \E i \in DOMAIN vehicles : vehicles[i].status = "sold" \/ ~vehicles[i].isActive

\* The limit a valid query asks for.
AskedLimit(q) == IF Has(q, "limit") THEN NumVal[q["limit"]] ELSE 10
AskedPage(q) == IF Has(q, "page") THEN NumVal[q["page"]] ELSE 1

\* C3: a listing returns at most limit vehicles, totalVehicles is the number
\* of vehicles matching the filter, and totalPages is ceil(totalVehicles / limit):
\* the least n with n * limit >= totalVehicles.  A listing that passed
\* validation is answered so unless its make or model is no regular expression.
C3_PageAndTotals ==
    /\ \A r \in ListedOK :
          LET p == resp[r].pagination
              limit == AskedLimit(resp[r].query)
          IN  /\ limit >= 1 /\ limit <= 50
              /\ Len(resp[r].vehicles) <= limit
              /\ p.totalVehicles =
                    Cardinality({i \in DOMAIN vehicles :
                                    Matches(vehicles[i], BuildFilter(resp[r].query))})
              /\ p.totalPages * limit >= p.totalVehicles
              /\ (p.totalPages - 1) * limit < p.totalVehicles
              /\ p.currentPage = AskedPage(resp[r].query)
    /\ \A r \in ListReplies :
          /\ resp[r].code \in {200, 400, 500}
          /\ resp[r].code = 500 =>
                \E k \in {"make", "model"} :
                    Has(resp[r].query, k) /\ resp[r].query[k] = "("

\* A second page of one vehicle out of two, and a last page that is not full.
C3_Witness ==
    \E r \in ListedOK :
        /\ resp[r].pagination.totalVehicles = 2
        /\ resp[r].pagination.totalPages = 2
        /\ resp[r].pagination.currentPage = 2
        /\ Len(resp[r].vehicles) = 1

\* The parameters of a query that the claim calls malformed.
Malformed(q) ==
    {k \in {"page"} : Has(q, k) /\ (~Numeric(q[k]) \/ NumVal[q[k]] < 1)}
    \cup {k \in {"limit"} :
            Has(q, k) /\ (~Numeric(q[k]) \/ NumVal[q[k]] < 1 \/ NumVal[q[k]] > 50)}
    \cup {k \in {"minPrice", "maxPrice"} :
            Has(q, k) /\ (~Numeric(q[k]) \/ NumVal[q[k]] < 0)}

\* C4: a listing with a malformed page, limit or price is answered 400 with
\* the list of the fields at fault and runs no store operation; any other
\* listing is not answered 400, limit = 50 included, which returns every
\* matching vehicle from its page's offset on.
C4_MalformedRejectedBeforeQuery ==
    \A r \in ListReplies :
        LET q == resp[r].query
        IN  /\ Malformed(q) # {} =>
                  /\ resp[r].code = 400
                  /\ resp[r].success = FALSE
                  /\ resp[r].errors = Malformed(q)
                  /\ calls[r] = <<>>
            /\ Malformed(q) = {} => resp[r].code # 400
            /\ (Malformed(q) = {} /\ Has(q, "limit") /\ q["limit"] = "50"
                   /\ resp[r].code = 200) =>
                  Len(resp[r].vehicles) =
                    IF resp[r].pagination.totalVehicles > (AskedPage(q) - 1) * 50
                      THEN resp[r].pagination.totalVehicles - (AskedPage(q) - 1) * 50
                      ELSE 0

\* limit = 51 was rejected with limit among the errors and nothing was queried.
C4_Witness ==
    \E r \in ListReplies :
        /\ Has(resp[r].query, "limit") /\ resp[r].query["limit"] = "51"
        /\ resp[r].code = 400
        /\ "limit" \in resp[r].errors
        /\ calls[r] = <<>>
        /\ vehicles # Empty

\* ---------------------------------------------------------------- C2
\* The caller is neither the vehicle's dealer nor an admin.
Stranger(c, id) == vehicles[id].dealer # c /\ UserRole[c] # "admin"

\* The outcome of the check for caller c and identifier id: 404 answers
\* exactly the well-formed identifiers of no vehicle; on an existing vehicle
\* a stranger is answered 403, and the dealer of the vehicle and an admin go
\* on to the write at `at`; nothing is changed either way.
C2_Outcome(r, c, id, at) ==
    /\ resp'[r].code = 404 <=> (id # BadId /\ id \notin DOMAIN vehicles)
    /\ vehicles' = vehicles
    /\ id \in DOMAIN vehicles =>
          IF Stranger(c, id)
            THEN resp'[r].code = 403 /\ pc'[r] = "done"
            ELSE resp'[r].code = 0 /\ pc'[r] = at

\* The first step of every PUT and DELETE by an authenticated caller has
\* that outcome: the step either answers, and the response names the caller
\* and the identifier it answers, or suspends at the write with both among
\* the handler's locals.
C2_Check(r) ==
    /\ (pc[r] = "idle" /\ pc'[r] \in {"put_update", "del_delete"}) =>
          C2_Outcome(r, loc'[r].caller, loc'[r].id, pc'[r])
    /\ (/\ pc[r] = "idle"
        /\ resp'[r].op \in {"putVehicle", "deleteVehicle"}
        /\ resp'[r].code # 401) =>
          C2_Outcome(r, resp'[r].caller, resp'[r].id,
                     IF resp'[r].op = "putVehicle" THEN "put_update" ELSE "del_delete")

\* The write of a DELETE that passed the check succeeds.
C2_DeleteSucceeds(r) ==
    DelDelete(r) =>
        resp'[r].code = 200 /\ resp'[r].success /\ loc[r].id \notin DOMAIN vehicles'

\* The write of every PUT that passed the check succeeds.
C2_PutSucceeds(r) ==
    PutUpdate(r) => resp'[r].code = 200 /\ resp'[r].success

\* The write of a PUT that passed the check succeeds when the body passes
\* the schema's validators, and is answered 500, changing nothing, when not.
C2_PutSucceedsIfValid(r) ==
    PutUpdate(r) =>
        IF \A f \in DOMAIN loc[r].body : PathValid(f, loc[r].body[f])
          THEN /\ resp'[r].code = 200 /\ resp'[r].success
               /\ \A f \in DOMAIN loc[r].body :
                     vehicles'[loc[r].id][f] = loc[r].body[f]
          ELSE resp'[r].code = 500 /\ vehicles' = vehicles

C5_FetchCountsOnce ==
    [][\A r \in Req :
         /\ GetSave(r) =>
               LET id == loc[r].vehicle.id
               IN  /\ id \in DOMAIN vehicles
                   /\ DOMAIN vehicles' = DOMAIN vehicles
                   /\ vehicles'[id].views = vehicles[id].views + 1
                   /\ [vehicles'[id] EXCEPT !.views = vehicles[id].views] = vehicles[id]
                   /\ \A j \in DOMAIN vehicles \ {id} : vehicles'[j] = vehicles[j]
                   /\ resp'[r].code = 200
                   /\ resp'[r].vehicle.views = vehicles[id].views + 1
         /\ (pc[r] = "idle" /\ (pc'[r] = "get_save" \/ resp'[r].op = "getVehicle")) =>
             \A id \in Ids :
               GetFind(r, id) =>
                   /\ vehicles' = vehicles
                   /\ (id # BadId /\ id \notin DOMAIN vehicles) =>
                         resp'[r].code = 404 /\ pc'[r] = "done"
                   /\ id \in DOMAIN vehicles => pc'[r] = "get_save"]_vars

\* A fetch answered with a count of 2, which the store holds too.
C5_Witness ==
    \E r \in Req :
        /\ resp[r].op = "getVehicle" /\ resp[r].code = 200
        /\ resp[r].vehicle.views = 2
        /\ vehicles[resp[r].vehicle.id].views = 2

\* ---------------------------------------------------------------- C8
\* C8: a GET, PUT or DELETE of /vehicles/:id with a malformed identifier is
\* answered 400.
C8_MalformedIdIs400 ==
    [][\A r \in Req :
         (\/ GetFind(r, BadId)
          \/ \E c \in UserIds, p \in Patches : PutFind(r, c, BadId, p)
          \/ \E c \in UserIds : DelFind(r, c, BadId))
         => resp'[r].code = 400]_vars

\* ---------------------------------------------------------------- C9
\* The fetches that immediately follow the creation of the vehicle fetched.
RoundTrips ==
    {r \in Req : /\ resp[r].op = "getVehicle" /\ resp[r].code = 200
                 /\ fresh.fetched /\ fresh.id = resp[r].vehicle.id}

C6_AnyTargetFromAnyState ==
    [][\A r \in Req, c \in UserIds, id \in DOMAIN contacts, s \in StatusInputs :
         (UserRole[c] = "admin" /\ StatusUpdate(r, c, id, s)) =>
             IF s \in {"new", "in_progress", "resolved", "closed"}
               THEN /\ resp'[r].code = 200
                    /\ contacts'[id].status = s
                    /\ contacts'[id].isRead = TRUE
                    /\ resp'[r].contact = contacts'[id]
                    /\ [contacts' EXCEPT ![id].status = contacts[id].status,
                                          ![id].isRead = contacts[id].isRead] = contacts
               ELSE /\ resp'[r].code = 400
                    /\ contacts' = contacts]_vars

\* An inquiry that was read and is in state new again.
C6_Witness ==
    \E r \in Req :
        /\ resp[r].op = "putStatus" /\ resp[r].code = 200
        /\ resp[r].contact.status = "new" /\ resp[r].contact.isRead
        /\ contacts[resp[r].contact.id].status = "new"

\* ---------------------------------------------------------------- C7
\* C7: a contact form that passes validation and names no existing vehicle
\* ends the handler with a JSON error response, success false, and creates
\* no Contact.
C7_MissingVehicleIsAnError ==
    [][\A r \in Req, b \in ContactBodies :
         (/\ ContactFind(r, b)
          /\ \A f \in {"name", "email", "subject", "message"} : Has(b, f)
          /\ TextLen[b.name] >= 2 /\ TextLen[b.subject] >= 5 /\ TextLen[b.message] >= 10
          /\ ~Has(b, "vehicleId") \/ b.vehicleId \notin DOMAIN vehicles)
         => /\ pc'[r] = "done"
            /\ resp'[r].code >= 400
            /\ resp'[r].success = FALSE
            /\ contacts' = contacts]_vars

\* The form was answered 500 while a vehicle, but not the one named, exists.
C7_Witness ==
    \E r \in Req :
        /\ resp[r].op = "postContact" /\ resp[r].code = 500
        /\ contacts = Empty /\ DOMAIN vehicles = {1}

C11_SaveWritesWhatItRead ==
    /\ [](\A id \in DOMAIN vehicles :
            IF saved[id] = 0
              THEN vehicles[id].views = 0
              ELSE 1 <= vehicles[id].views /\ vehicles[id].views <= saved[id])
    /\ [][\A r \in Req :
            (GetSave(r) /\ loc[r].vehicle.id \in DOMAIN vehicles) =>
                /\ vehicles'[loc[r].vehicle.id].views = loc[r].vehicle.views + 1
                /\ resp'[r].code = 200
                /\ resp'[r].vehicle.views = loc[r].vehicle.views + 1]_vars

\* The lost update: two fetches of a vehicle both read 0 before either saved,
\* both were answered 200 with a count of 1, and the store holds 1.
C11_Witness ==
    \E id \in DOMAIN vehicles :
        /\ \A r \in Req : /\ resp[r].op = "getVehicle" /\ resp[r].code = 200
                           /\ resp[r].vehicle.id = id /\ resp[r].vehicle.views = 1
        /\ saved[id] = 2
        /\ vehicles[id].views = 1

\* --------------------------------------------------------------- C12
\* The totals of a listing response agree with its page: the page holds the
\* vehicles that totalVehicles leaves after the skip, up to the limit, and
\* hasNextPage says whether totalVehicles goes beyond the page.
Agrees(rsp) ==
    LET total == rsp.pagination.totalVehicles
        limit == AskedLimit(rsp.query)
        skip == (rsp.pagination.currentPage - 1) * limit
        rest == IF total > skip THEN total - skip ELSE 0
    IN  /\ Len(rsp.vehicles) = IF rest < limit THEN rest ELSE limit
        /\ rsp.pagination.hasNextPage <=> total > skip + Len(rsp.vehicles)
        /\ rsp.pagination.totalPages = CeilDiv(total, limit)

\* C12: the listing answers with the page its find returned and the total its
\* later count returns, each of the collection as it was at that call; when the
\* vehicles matching the filter are the same at both calls the totals agree
\* with the page and every vehicle of the page is in the collection; neither
\* step of the listing changes the collection.
C12_PageAndCountAreSeparateReads ==
    [][\A r \in Req :
         /\ ListCount(r) =>
               /\ vehicles' = vehicles
               /\ resp'[r].code = 200
               /\ resp'[r].vehicles = loc[r].vehicles
               /\ resp'[r].pagination.totalVehicles =
                     Cardinality(Matching(vehicles, loc[r].filter))
               /\ Matching(vehicles, loc[r].filter) = loc[r].matched =>
                     /\ Agrees(resp'[r])
                     /\ \A i \in 1..Len(loc[r].vehicles) :
                           loc[r].vehicles[i] \in Matching(vehicles, loc[r].filter)
         /\ \A q \in CoreQueries :
               ListFind(r, q) =>
                   /\ vehicles' = vehicles
                   /\ pc'[r] = "list_count" =>
                         loc'[r].matched = Matching(vehicles, BuildFilter(q))]_vars

\* A write landed between the find and the count: the listing returns more
\* vehicles than its totalVehicles.
C12_Witness ==
    \E r \in Req :
        /\ resp[r].op = "listVehicles" /\ resp[r].code = 200
        /\ Len(resp[r].vehicles) > resp[r].pagination.totalVehicles
        /\ ~Agrees(resp[r])
====
